---- MODULE Spec2Model ----
(***************************************************************************)
(* Model of verl/trainer/ppo/mismatch_helper.py: importance-sampling       *)
(* weights, rejection mask, catastrophic-token veto and mismatch metrics   *)
(* over a (B, T) batch of per-token log-probabilities.                     *)
(*                                                                         *)
(* Numbers.  A log-domain value (a log-probability, a log-ratio, a sum or  *)
(* a mean of log-ratios, the log of a threshold) is an integer, counted in *)
(* a fixed log unit.  A linear-domain value (a weight, a threshold) is     *)
(* zero or plus/minus a power of the base of that unit and is written by   *)
(* its sign and exponent, so exp and log are exact and the order of two    *)
(* linear values is decided exactly.  Input log-probabilities lie on the   *)
(* grid of multiples of Grid, which makes every masked mean that is taken  *)
(* an integer.  Where weights are added (effective sample size) the        *)
(* base is 2 and a weight is a scaled integer.                             *)
(***************************************************************************)
EXTENDS Integers, Sequences, FiniteSets, TLC

\* ------------------------------------------------------------------ bounds
B == 2
T == 3

Rows == 1..B
Cols == 1..T

\* A tensor is held by value: a (B,) vector and a (B, T) tensor are computed
\* once, element by element, when they are built.
Vector(v) == v \o <<>>
Tensor(t) == [i \in Rows |-> t[i] \o <<>>] \o <<>>

\* Safety bound on the argument of every guarded exponentiation.
SAFETY_BOUND == 20

\* ----------------------------------------------------------- linear values
Pow(k) == [s |-> 1, e |-> k]
Neg(k) == [s |-> -1, e |-> k]
Zero == [s |-> 0, e |-> 0]
One == Pow(0)
\* Python's None for an optional threshold, and for an optional level.
None == [s |-> 2, e |-> 0]
NoLevel == "None"

IsNone(x) == x.s = 2
IsPositive(x) == x.s = 1
\* x <= 0 on a supplied number
NonPositive(x) == x.s = 0 \/ x.s = -1

LinLT(a, b) ==
    IF a.s # b.s THEN a.s < b.s
    ELSE IF a.s = 1 THEN a.e < b.e
    ELSE IF a.s = -1 THEN a.e > b.e
    ELSE FALSE

LinLE(a, b) == a = b \/ LinLT(a, b)

\* 1.0 / x for x # 0
Recip(x) == [s |-> x.s, e |-> 0 - x.e]

\* torch.exp on a log-domain value
Exp(x) == Pow(x)

\* torch.clamp(x, min=lo, max=hi) on log-domain values
Clamp(x, lo, hi) == IF x < lo THEN lo ELSE IF x > hi THEN hi ELSE x

\* tensor.clamp(max=hi) and tensor.clamp(min=lo, max=hi) on linear values
\* (torch applies min first, then max)
ClampMax(w, hi) == IF LinLT(hi, w) THEN hi ELSE w
ClampMin(w, lo) == IF LinLT(w, lo) THEN lo ELSE w
ClampLin(w, lo, hi) == ClampMax(ClampMin(w, lo), hi)

\* ------------------------------------------------------------------ sums
RECURSIVE SumTo(_, _)
SumTo(f, n) == IF n = 0 THEN 0 ELSE f[n] + SumTo(f, n - 1)

RECURSIVE Gcd(_, _)
Gcd(a, b) == IF b = 0 THEN a ELSE Gcd(b, a % b)

RECURSIVE LcmUpTo(_)
LcmUpTo(n) == IF n <= 1 THEN 1 ELSE (LcmUpTo(n - 1) * n) \div Gcd(LcmUpTo(n - 1), n)

RECURSIVE Pow2(_)
Pow2(n) == IF n <= 0 THEN 1 ELSE 2 * Pow2(n - 1)

\* Input grid: every masked mean of at most T - 1 grid values is an integer.  A
\* row of T valid tokens occurs with equal log-probabilities only (see Init).
Grid == LcmUpTo(T - 1)

RECURSIVE RowSumTo(_, _, _, _)
RowSumTo(values, mask, i, j) ==
    IF j = 0 THEN 0 ELSE values[i][j] * mask[i][j] + RowSumTo(values, mask, i, j - 1)

\* verl_F.masked_sum(values, mask, axis=-1): one value per row
masked_sum_rows(values, mask) == Vector([i \in Rows |-> RowSumTo(values, mask, i, T)])

\* number of valid tokens of a row / of the batch
RowCount(mask, i) == Cardinality({j \in Cols : mask[i][j] = 1})
MaskCount(mask) == Cardinality({p \in Rows \X Cols : mask[p[1]][p[2]] = 1})

\* verl_F.masked_mean(values, mask, axis=-1): one value per row; a row with no
\* valid token yields 0 (sum 0 over the guarded denominator).
masked_mean_rows(values, mask) ==
    Vector([i \in Rows |->
        IF RowCount(mask, i) = 0 THEN 0
        ELSE RowSumTo(values, mask, i, T) \div RowCount(mask, i)])

\* response_mask.any()
MaskAny(mask) == \E i \in Rows, j \in Cols : mask[i][j] = 1

\* ------------------------------------------------------- results, metrics
NoTensor == <<>>
NoMetrics == <<>>
Raised(exc) ==
    [kind |-> "raised", exc |-> exc, weights |-> NoTensor, mask |-> NoTensor,
     metrics |-> NoMetrics]
Returned(w, m, metrics) ==
    [kind |-> "returned", exc |-> "", weights |-> w, mask |-> m, metrics |-> metrics]

\* A scalar metric is a fraction num/den.
Frac(n, d) == [num |-> n, den |-> d]
\* a metric whose value the model does not represent
NotComputed == Frac(0, 0)

\* number of valid positions satisfying a per-position test
CountValid(mask, flags) ==
    Cardinality({p \in Rows \X Cols : mask[p[1]][p[2]] = 1 /\ flags[p[1]][p[2]]})
\* number of rows satisfying a per-row test
CountRows(flags) == Cardinality({i \in Rows : flags[i]})

\* the weights at the valid positions
ValidWeights(weights, mask) ==
    {weights[p[1]][p[2]] : p \in {q \in Rows \X Cols : mask[q[1]][q[2]] = 1}}
\* mutant: the maximum runs over padding too
MaskedMax_unmasked(weights, mask) ==
    LET ws == {weights[i][j] : i \in Rows, j \in Cols}
    IN  CHOOSE w \in ws : \A v \in ws : LinLE(v, w)

\* weights.masked_fill(~mask_bool, -inf).max() and masked_fill(~mask_bool, inf).min()
MaskedMax(weights, mask) ==
    LET ws == ValidWeights(weights, mask)
    IN  CHOOSE w \in ws : \A v \in ws : LinLE(v, w)
MaskedMin(weights, mask) ==
    LET ws == ValidWeights(weights, mask)
    IN  CHOOSE w \in ws : \A v \in ws : LinLE(w, v)
\* log_ratio_for_metrics.max() and .min() over the (B, 1) per-row values
LogMax(agg) == CHOOSE x \in {agg[i][1] : i \in Rows} : \A i \in Rows : agg[i][1] <= x
LogMin(agg) == CHOOSE x \in {agg[i][1] : i \in Rows} : \A i \in Rows : x <= agg[i][1]
\* masked_mean of linear values: the sum is kept as the number of valid
\* positions at each value
WeightMean(weights, mask) ==
    [terms |-> [w \in ValidWeights(weights, mask) |->
                  CountValid(mask, [i \in Rows |-> [j \in Cols |-> weights[i][j] = w]])],
     den |-> MaskCount(mask)]
\* the mean over the batch of one linear value per row
BatchMean(values) == [terms |-> Vector(values), den |-> B]

\* torch.log(torch.tensor(x)) of a linear value: a number, -inf for 0, nan below 0
Log(x) ==
    IF x.s = 1 THEN [k |-> "num", v |-> x.e]
    ELSE IF x.s = 0 THEN [k |-> "ninf", v |-> 0]
    ELSE [k |-> "nan", v |-> 0]
\* a > L and a < L for a finite log-domain a and L as returned by Log
LogGT(a, L) == IF L.k = "num" THEN a > L.v ELSE L.k = "ninf"
LogLT(a, L) == IF L.k = "num" THEN a < L.v ELSE FALSE

\* The guard 1e-8 added to the mean in the effective sample size is one unit,
\* EssEps, of the weight scale 2^-EssGuardExp; a weight 2^e is the integer
\* 2^(e + EssGuardExp).  The effective sample size is represented for clamp
\* thresholds between 2^-MaxEssExp and 2^MaxEssExp.
EssGuardExp == 6
MaxEssExp == 2
EssEps == 1
WeightNum(w) == Pow2(w.e + EssGuardExp)
EssRepresentable(lo, hi) ==
    /\ IsPositive(lo) /\ IsPositive(hi)
    /\ lo.e >= 0 - MaxEssExp /\ lo.e <= MaxEssExp
    /\ hi.e >= 0 - MaxEssExp /\ hi.e <= MaxEssExp

\* mutant: the unnormalised sample size (sum w)^2 / sum w^2
EffSampleSize_unnormalised(weights, mask, lo, hi) ==
    IF ~EssRepresentable(lo, hi) THEN NotComputed
    ELSE
      LET wn == Tensor([i \in Rows |-> [j \in Cols |->
                    WeightNum(ClampLin(weights[i][j], lo, hi))]])
          S == SumTo([i \in Rows |-> RowSumTo(wn, mask, i, T)], B)
          sq == Tensor([r \in Rows |-> [c \in Cols |-> wn[r][c] * wn[r][c]]])
          Q == SumTo([i \in Rows |-> RowSumTo(sq, mask, i, T)], B)
      IN Frac(S * S, Q)

\* 1 / masked_mean((w / (masked_mean(w) + 1e-8))^2) over the weights clamped to
\* [lo, hi]:  with S the sum, Q the sum of squares and n the number of valid
\* tokens, mean = S/n, w/(mean + eps) = n*w/(S + n*eps), and the result is
\* (S + n*eps)^2 / (n*Q).
EffSampleSize(weights, mask, lo, hi) ==
    IF ~EssRepresentable(lo, hi) THEN NotComputed
    ELSE
      LET wn == Tensor([i \in Rows |-> [j \in Cols |->
                    WeightNum(ClampLin(weights[i][j], lo, hi))]])
          n == MaskCount(mask)
          S == SumTo([i \in Rows |-> RowSumTo(wn, mask, i, T)], B)
          sq == Tensor([r \in Rows |-> [c \in Cols |-> wn[r][c] * wn[r][c]]])
          Q == SumTo([i \in Rows |-> RowSumTo(sq, mask, i, T)], B)
      IN Frac((S + n * EssEps) * (S + n * EssEps), n * Q)

\* ------------------------------------------------ importance-sampling weights
valid_is_levels == {"token", "sequence"}

\* mutant: the row sum runs over padding too
IsAggregate_unmasked(log_ratio, response_mask, rollout_is) ==
    IF rollout_is = "token" THEN log_ratio
    ELSE LET ones == [i \in Rows |-> [j \in Cols |-> 1]]
             log_ratio_sum == masked_sum_rows(log_ratio, ones)
         IN  Tensor([i \in Rows |-> [j \in Cols |-> log_ratio_sum[i]]])

\* log_ratio_for_metrics, broadcast to (B, T): the per-token log-ratio, or the
\* masked sum of the row
IsAggregate(log_ratio, response_mask, rollout_is) ==
    IF rollout_is = "token" THEN log_ratio
    ELSE LET log_ratio_sum == masked_sum_rows(log_ratio, response_mask)
         IN  Tensor([i \in Rows |-> [j \in Cols |-> log_ratio_sum[i]]])

\* mutant: exp without the safety clamp
SafeExp_unclamped(agg) == Tensor([i \in Rows |-> [j \in Cols |-> Exp(agg[i][j])]])

\* exp of the safety-clamped aggregated log value
SafeExp(agg) ==
    Tensor([i \in Rows |-> [j \in Cols |->
        Exp(Clamp(agg[i][j], 0 - SAFETY_BOUND, SAFETY_BOUND))]])

\* mutant: the truncation is left out
TruncateWeights_none(w, tau) == w

\* rollout_is_weights.clamp(max=rollout_is_threshold)
TruncateWeights(w, tau) ==
    Tensor([i \in Rows |-> [j \in Cols |-> ClampMax(w[i][j], tau)]])

\* mutant: the weights are not multiplied by the response mask
ZeroPadding_none(w, response_mask) == w

\* rollout_is_weights * response_mask
ZeroPadding(w, response_mask) ==
    Tensor([i \in Rows |-> [j \in Cols |-> IF response_mask[i][j] = 1 THEN w[i][j] ELSE Zero]])

\* The standard deviation and the statistics of the per-sequence mean weights:
\* the keys are emitted, their values are not represented.
IsSpreadMetrics ==
    [k \in {"rollout_is_std", "rollout_is_seq_mean", "rollout_is_seq_std",
             "rollout_is_seq_max", "rollout_is_seq_min", "rollout_is_seq_max_deviation",
             "rollout_is_seq_fraction_high", "rollout_is_seq_fraction_low"} |-> NotComputed]

compute_is_metrics(rollout_is_weights, agg, response_mask, rollout_is, tau) ==
    LET lower == Recip(tau)
        log_upper == Log(tau)
        log_lower == Log(lower)
        n == MaskCount(response_mask)
        high == IF rollout_is = "sequence"
                THEN Frac(CountRows([i \in Rows |-> LogGT(agg[i][1], log_upper)]), B)
                ELSE Frac(CountValid(response_mask,
                            [i \in Rows |-> [j \in Cols |-> LinLT(tau, rollout_is_weights[i][j])]]), n)
        low == IF rollout_is = "sequence"
               THEN Frac(CountRows([i \in Rows |-> LogLT(agg[i][1], log_lower)]), B)
               ELSE Frac(CountValid(response_mask,
                           [i \in Rows |-> [j \in Cols |-> LinLT(rollout_is_weights[i][j], lower)]]), n)
    IN  [rollout_is_ratio_fraction_high |-> high,
         rollout_is_ratio_fraction_low |-> low,
         rollout_is_eff_sample_size |->
               EffSampleSize(rollout_is_weights, response_mask, lower, tau),
         rollout_is_max |->
               IF rollout_is = "sequence"
               THEN Exp(IF LogMax(agg) > SAFETY_BOUND THEN SAFETY_BOUND ELSE LogMax(agg))
               ELSE MaskedMax(rollout_is_weights, response_mask),
         rollout_is_min |->
               IF rollout_is = "sequence" THEN Exp(LogMin(agg))
               ELSE MaskedMin(rollout_is_weights, response_mask),
         rollout_is_mean |-> WeightMean(rollout_is_weights, response_mask)]
        @@ IsSpreadMetrics

compute_rollout_correction_weights(log_ratio, response_mask, rollout_is, tau) ==
    IF rollout_is \notin valid_is_levels THEN Raised("ValueError")
    ELSE IF NonPositive(tau) THEN Raised("ValueError")
    ELSE
      LET agg == IsAggregate(log_ratio, response_mask, rollout_is)
          w == ZeroPadding(TruncateWeights(SafeExp(agg), tau), response_mask)
      IN  IF ~MaskAny(response_mask) THEN Raised("ValueError")
          ELSE Returned(w, NoTensor,
                        compute_is_metrics(w, agg, response_mask, rollout_is, tau))

\* ------------------------------------------------------------ rejection mask
\* mutant: an unknown level passes the validation
valid_rs_levels_open == {"token", "sequence", "geometric", "bogus"}

valid_rs_levels == {"token", "sequence", "geometric"}

\* mutant: every level uses the per-token log-ratio
RsAggregate_token(log_ratio, response_mask, rollout_rs) == log_ratio

\* mutant: the geometric level averages over padding too
RsAggregate_unmasked_mean(log_ratio, response_mask, rollout_rs) ==
    IF rollout_rs = "token" THEN log_ratio
    ELSE IF rollout_rs = "sequence"
    THEN LET log_ratio_sum == masked_sum_rows(log_ratio, response_mask)
         IN  Tensor([i \in Rows |-> [j \in Cols |-> log_ratio_sum[i]]])
    ELSE LET ones == [i \in Rows |-> [j \in Cols |-> 1]]
             log_ratio_sum == masked_sum_rows(log_ratio, ones)
         IN  Tensor([i \in Rows |-> [j \in Cols |-> log_ratio_sum[i] \div T]])

\* log_ratio_for_metrics, broadcast to (B, T): the per-token log-ratio, the
\* masked sum of the row, or the masked mean of the row
RsAggregate(log_ratio, response_mask, rollout_rs) ==
    IF rollout_rs = "token" THEN log_ratio
    ELSE IF rollout_rs = "sequence"
    THEN LET log_ratio_sum == masked_sum_rows(log_ratio, response_mask)
         IN  Tensor([i \in Rows |-> [j \in Cols |-> log_ratio_sum[i]]])
    ELSE LET log_ratio_mean == masked_mean_rows(log_ratio, response_mask)
         IN  Tensor([i \in Rows |-> [j \in Cols |-> log_ratio_mean[i]]])

\* lower_threshold: the supplied one, or 1.0 / upper_threshold
LowerThreshold(upper, lower) == IF IsNone(lower) THEN Recip(upper) ELSE lower

\* mutant: the upper bound is exclusive
InBand_exclusive(w, lower, upper) == LinLE(lower, w) /\ LinLT(w, upper)

\* (rollout_is_weights >= lower_threshold) & (rollout_is_weights <= upper_threshold)
InBand(w, lower, upper) == LinLE(lower, w) /\ LinLE(w, upper)
OutlierMask(weights, lower, upper) ==
    Tensor([i \in Rows |-> [j \in Cols |-> IF InBand(weights[i][j], lower, upper) THEN 1 ELSE 0]])

\* mutant: the band mask is returned without the response mask
ApplyMask_band_only(response_mask, mask) == mask

\* response_mask * mask
ApplyMask(response_mask, mask) ==
    Tensor([i \in Rows |-> [j \in Cols |-> response_mask[i][j] * mask[i][j]]])

RsSpreadMetrics ==
    [k \in {"rollout_rs_std", "rollout_rs_seq_mean", "rollout_rs_seq_std",
             "rollout_rs_seq_max", "rollout_rs_seq_min", "rollout_rs_seq_max_deviation",
             "rollout_rs_seq_fraction_high", "rollout_rs_seq_fraction_low"} |-> NotComputed]

compute_rs_metrics(rollout_is_weights, agg, response_mask, rollout_rs, upper, lower) ==
    LET log_upper == Log(upper)
        log_lower == Log(lower)
        n == MaskCount(response_mask)
        high ==
          IF rollout_rs = "sequence"
          THEN Frac(CountRows([i \in Rows |-> LogGT(agg[i][1], log_upper)]), B)
          ELSE IF rollout_rs = "geometric"
          THEN Frac(CountValid(response_mask, [i \in Rows |-> [j \in Cols |-> LogGT(agg[i][1], log_upper)]]), n)
          ELSE Frac(CountValid(response_mask,
                      [i \in Rows |-> [j \in Cols |-> LinLT(upper, rollout_is_weights[i][j])]]), n)
        low ==
          IF rollout_rs = "sequence"
          THEN Frac(CountRows([i \in Rows |-> LogLT(agg[i][1], log_lower)]), B)
          ELSE IF rollout_rs = "geometric"
          THEN Frac(CountValid(response_mask, [i \in Rows |-> [j \in Cols |-> LogLT(agg[i][1], log_lower)]]), n)
          ELSE Frac(CountValid(response_mask,
                      [i \in Rows |-> [j \in Cols |-> LinLT(rollout_is_weights[i][j], lower)]]), n)
    IN  [rollout_rs_ratio_fraction_high |-> high,
         rollout_rs_ratio_fraction_low |-> low,
         rollout_rs_eff_sample_size |->
               EffSampleSize(rollout_is_weights, response_mask, lower, upper),
         rollout_rs_max |->
               IF rollout_rs = "token" THEN MaskedMax(rollout_is_weights, response_mask)
               ELSE Exp(IF LogMax(agg) > SAFETY_BOUND THEN SAFETY_BOUND ELSE LogMax(agg)),
         rollout_rs_min |->
               IF rollout_rs = "token" THEN MaskedMin(rollout_is_weights, response_mask)
               ELSE Exp(LogMin(agg)),
         rollout_rs_mean |-> WeightMean(rollout_is_weights, response_mask)]
        @@ RsSpreadMetrics

\* rollout_rs_masked_fraction and rollout_rs_seq_masked_fraction
RejectionRates(mask, response_mask, rollout_rs) ==
    [rollout_rs_masked_fraction |->
        Frac(CountValid(response_mask, [i \in Rows |-> [j \in Cols |-> mask[i][j] = 0]]),
             MaskCount(response_mask)),
     rollout_rs_seq_masked_fraction |->
        IF rollout_rs = "token"
        THEN Frac(CountRows([i \in Rows |-> \E j \in Cols : response_mask[i][j] = 1 /\ mask[i][j] = 0]), B)
        ELSE Frac(CountRows([i \in Rows |-> mask[i][1] = 0]), B)]

compute_rollout_rejection_mask(log_ratio, response_mask, rollout_rs, upper, lower_arg) ==
    IF rollout_rs \notin valid_rs_levels THEN Raised("ValueError")
    ELSE IF IsNone(upper) THEN Raised("ValueError")
    ELSE IF IsNone(lower_arg) /\ upper.s = 0 THEN Raised("ZeroDivisionError")
    ELSE
      LET lower == LowerThreshold(upper, lower_arg)
          agg == RsAggregate(log_ratio, response_mask, rollout_rs)
          weights == SafeExp(agg)
          mask == OutlierMask(weights, lower, upper)
      IN  IF ~MaskAny(response_mask) THEN Raised("ValueError")
          ELSE Returned(NoTensor, ApplyMask(response_mask, mask),
                   compute_rs_metrics(weights, agg, response_mask, rollout_rs, upper, lower)
                   @@ RejectionRates(mask, response_mask, rollout_rs))

\* ---------------------------------------------------------- mismatch metrics
\* masked_mean(rollout_log_prob - old_log_prob, response_mask)
MismatchKl(old_log_prob, rollout_log_prob, response_mask) ==
    LET diff == Tensor([i \in Rows |-> [j \in Cols |->
                    rollout_log_prob[i][j] - old_log_prob[i][j]]])
    IN  Frac(SumTo([i \in Rows |-> RowSumTo(diff, response_mask, i, T)], B),
             MaskCount(response_mask))

\* masked_mean(exp(log_ratio) - log_ratio - 1, response_mask): the sum of the
\* terms exp(x) - x - 1 is kept as the number of valid tokens at each log-ratio
\* x; a term is zero exactly for x = 0.
MismatchK3(old_log_prob, rollout_log_prob, response_mask) ==
    LET lr == Tensor([i \in Rows |-> [j \in Cols |->
                  old_log_prob[i][j] - rollout_log_prob[i][j]]])
        xs == {lr[i][j] : i \in Rows, j \in Cols}
    IN  [terms |-> [x \in {y \in xs : \E i \in Rows, j \in Cols :
                                 response_mask[i][j] = 1 /\ lr[i][j] = y} |->
                      CountValid(response_mask, [i \in Rows |-> [j \in Cols |-> lr[i][j] = x]])],
         den |-> MaskCount(response_mask)]
K3IsZero(m) == \A x \in DOMAIN m.terms : x = 0

\* mean over the batch of the per-row negated masked mean log-probability
LogPpl(log_prob, response_mask) ==
    LET mean_log_prob == masked_mean_rows(log_prob, response_mask)
    IN  Frac(SumTo([i \in Rows |-> 0 - mean_log_prob[i]], B), B)

\* torch.exp(-mean_log_prob).mean(): one exponential per row
Ppl(log_prob, response_mask) ==
    LET mean_log_prob == masked_mean_rows(log_prob, response_mask)
    IN  BatchMean([i \in Rows |-> Exp(0 - mean_log_prob[i])])

\* log_ppl_diff = mean_log_prob_rollout - mean_log_prob_training, per row
LogPplDiff(old_log_prob, rollout_log_prob, response_mask) ==
    LET mean_log_prob_rollout == masked_mean_rows(rollout_log_prob, response_mask)
        mean_log_prob_training == masked_mean_rows(old_log_prob, response_mask)
    IN  Vector([i \in Rows |-> mean_log_prob_rollout[i] - mean_log_prob_training[i]])
Abs(x) == IF x < 0 THEN 0 - x ELSE x

\* mismatch_log_ppl_diff, _abs_diff, _diff_max, _diff_min and mismatch_ppl_ratio
PplDiffMetrics(old_log_prob, rollout_log_prob, response_mask) ==
    LET d == LogPplDiff(old_log_prob, rollout_log_prob, response_mask)
    IN  [mismatch_log_ppl_diff |-> Frac(SumTo(d, B), B),
         mismatch_log_ppl_abs_diff |-> Frac(SumTo([i \in Rows |-> Abs(d[i])], B), B),
         mismatch_log_ppl_diff_max |->
               Frac(CHOOSE x \in {d[i] : i \in Rows} : \A i \in Rows : d[i] <= x, 1),
         mismatch_log_ppl_diff_min |->
               Frac(CHOOSE x \in {d[i] : i \in Rows} : \A i \in Rows : x <= d[i], 1),
         mismatch_ppl_ratio |-> BatchMean([i \in Rows |-> Exp(d[i])])]

\* assertions: whether the interpreter runs assert statements (python -O drops them)
compute_mismatch_metrics(old_log_prob, rollout_log_prob, response_mask, assertions) ==
    IF assertions /\ ~MaskAny(response_mask) THEN Raised("AssertionError")
    ELSE Returned(NoTensor, NoTensor,
           [mismatch_training_log_ppl |-> LogPpl(old_log_prob, response_mask),
            mismatch_kl |-> MismatchKl(old_log_prob, rollout_log_prob, response_mask),
            mismatch_k3_kl |-> MismatchK3(old_log_prob, rollout_log_prob, response_mask),
            mismatch_rollout_log_ppl |-> LogPpl(rollout_log_prob, response_mask),
            mismatch_training_ppl |-> Ppl(old_log_prob, response_mask),
            mismatch_rollout_ppl |-> Ppl(rollout_log_prob, response_mask)]
           @@ PplDiffMetrics(old_log_prob, rollout_log_prob, response_mask))

\* ------------------------------------------------------------ unified entry
\* log_ratio = old_log_prob - rollout_log_prob
LogRatio(old_log_prob, rollout_log_prob) ==
    Tensor([i \in Rows |-> [j \in Cols |-> old_log_prob[i][j] - rollout_log_prob[i][j]]])

\* mutant: padding positions are tested too
catastrophic_tokens_unmasked(log_ratio, response_mask, veto) ==
    Tensor([i \in Rows |-> [j \in Cols |-> LogLT(log_ratio[i][j], Log(veto))]])

\* (log_ratio < log_veto_threshold) & response_mask.bool()
catastrophic_tokens(log_ratio, response_mask, veto) ==
    Tensor([i \in Rows |-> [j \in Cols |->
        LogLT(log_ratio[i][j], Log(veto)) /\ response_mask[i][j] = 1]])

\* mutant: any() over the whole batch instead of per row
has_catastrophic_batch(cat) == [i \in Rows |-> \E r \in Rows, j \in Cols : cat[r][j]]

\* catastrophic_tokens.any(dim=-1, keepdim=True)
has_catastrophic(cat) == Vector([i \in Rows |-> \E j \in Cols : cat[i][j]])

\* mutant: the veto mask replaces the mask instead of multiplying it
ApplyVeto_replaces(modified_response_mask, has_cat) ==
    [i \in Rows |-> [j \in Cols |-> IF has_cat[i] THEN 0 ELSE 1]]

\* modified_response_mask * veto_mask, veto_mask = (~has_catastrophic).float()
ApplyVeto(modified_response_mask, has_cat) ==
    Tensor([i \in Rows |-> [j \in Cols |->
        IF has_cat[i] THEN 0 ELSE modified_response_mask[i][j]]])

VetoMetrics(cat, response_mask) ==
    [rollout_is_veto_fraction |-> Frac(CountRows(has_catastrophic(cat)), B),
     rollout_is_catastrophic_token_fraction |->
          Frac(CountValid(response_mask, cat), MaskCount(response_mask))]

VetoPlaceholders ==
    [rollout_is_veto_fraction |-> Frac(0, 1),
     rollout_is_catastrophic_token_fraction |-> Frac(0, 1)]

\* metrics_scalar[f"mismatch/{key}"] = value
PrefixKeys(metrics, keys) ==
    [k \in {"mismatch/" \o x : x \in keys} |-> metrics[SubSeq(k, 10, Len(k))]]

\* mutant: the weights stage runs whenever a level is given
IsEnabled_level_only(cfg) == cfg.rollout_is # NoLevel

\* Step 2: the weights stage runs when both the level and the threshold are given
IsEnabled(cfg) == cfg.rollout_is # NoLevel /\ ~IsNone(cfg.rollout_is_threshold)
\* Step 3: the rejection stage likewise
RsEnabled(cfg) == cfg.rollout_rs # NoLevel /\ ~IsNone(cfg.rollout_rs_threshold)
VetoEnabled(cfg) == ~IsNone(cfg.rollout_token_veto_threshold)

\* the rejection stage is given the original mask
RsStage(log_ratio, response_mask, cfg) ==
    compute_rollout_rejection_mask(log_ratio, response_mask,
        cfg.rollout_rs, cfg.rollout_rs_threshold, cfg.rollout_rs_threshold_lower)

\* mutant: the weights stage is given the mask the rejection stage left
IsStage_rejected_mask(log_ratio, response_mask, cfg) ==
    compute_rollout_correction_weights(log_ratio,
        IF RsEnabled(cfg) /\ RsStage(log_ratio, response_mask, cfg).kind = "returned"
        THEN RsStage(log_ratio, response_mask, cfg).mask ELSE response_mask,
        cfg.rollout_is, cfg.rollout_is_threshold)

\* the weights stage is given the original mask
IsStage(log_ratio, response_mask, cfg) ==
    compute_rollout_correction_weights(log_ratio, response_mask,
        cfg.rollout_is, cfg.rollout_is_threshold)

compute_rollout_correction_and_rejection_mask(old_log_prob, rollout_log_prob, response_mask, cfg) ==
    IF ~MaskAny(response_mask) THEN Raised("ValueError")
    ELSE
      LET log_ratio == LogRatio(old_log_prob, rollout_log_prob)
          is == IsStage(log_ratio, response_mask, cfg)
          rs == RsStage(log_ratio, response_mask, cfg)
          veto == cfg.rollout_token_veto_threshold
          cat == catastrophic_tokens(log_ratio, response_mask, veto)
          rollout_is_weights == IF IsEnabled(cfg) THEN is.weights ELSE NoTensor
          rejected == IF RsEnabled(cfg) THEN rs.mask ELSE response_mask
          final == IF VetoEnabled(cfg) THEN ApplyVeto(rejected, has_catastrophic(cat))
                   ELSE rejected
          mm == compute_mismatch_metrics(old_log_prob, rollout_log_prob, response_mask, TRUE)
          metrics ==
              mm.metrics
              @@ (IF VetoEnabled(cfg) THEN VetoMetrics(cat, response_mask)
                  ELSE VetoPlaceholders)
              @@ (IF RsEnabled(cfg) THEN rs.metrics ELSE NoMetrics)
              @@ (IF IsEnabled(cfg) THEN is.metrics ELSE NoMetrics)
      IN  IF IsEnabled(cfg) /\ is.kind = "raised" THEN is
          ELSE IF RsEnabled(cfg) /\ rs.kind = "raised" THEN rs
          ELSE IF VetoEnabled(cfg) /\ NonPositive(veto) THEN Raised("ValueError")
          ELSE Returned(rollout_is_weights, final, PrefixKeys(metrics, DOMAIN metrics))

\* ------------------------------------------------------------------- state
VARIABLES
    old_log_prob,      \* training log-probabilities, (B, T)
    rollout_log_prob,  \* rollout log-probabilities, (B, T)
    response_mask,     \* 1 = valid token, 0 = padding, (B, T)
    pc,                \* "ready" before the call, "done" after it
    entry,             \* the entry point called
    cfg,               \* the configuration it was called with
    out                \* what the call returned or raised

vars == <<old_log_prob, rollout_log_prob, response_mask, pc, entry, cfg, out>>

\* ------------------------------------------------------------------ inputs
RolloutLogProbs == {0 - Grid}
\* a log-ratio below -SAFETY_BOUND, on the grid
ExtremeLogRatio == 0 - Grid * ((SAFETY_BOUND \div Grid) + 2)
LogRatios == {0 - Grid, 0, Grid, ExtremeLogRatio}
\* the training log-probabilities stored at padding positions: one above and
\* one far below the rollout log-probability
PaddingLogProbs == {0, ExtremeLogRatio - Grid}
PaddingLogProb(i) == IF i % 2 = 1 THEN 0 ELSE ExtremeLogRatio - Grid

\* A row of the batch, as <<mask, log-ratio>> per position.  The last position
\* is padding in every row but the full row whose training and rollout
\* log-probabilities agree.  The valid tokens of a row come in descending
\* order of their log-ratio: no operation of the code tells the positions of a
\* row apart.
RowChoices ==
    {c \in [Cols -> (({1} \X LogRatios) \cup {<<0, 0>>})] :
        /\ c[T][1] = 1 => \A j \in Cols : c[j] = <<1, 0>>
        /\ \A j \in Cols, k \in Cols :
              (j < k /\ c[j][1] = 1 /\ c[k][1] = 1) => c[j][2] >= c[k][2]}

IsThresholds == {Pow(1), Pow(-1), Pow(0 - SAFETY_BOUND - 2), Zero}
IsLevels == {"token", "sequence", "bogus"}
RsSettings ==
    ({"token", "sequence", "geometric"}
        \X {<<Pow(2), None>>, <<Pow(1), None>>, <<Pow(2), Pow(-1)>>})
    \cup ({"token"} \X {<<Pow(-2), None>>, <<Pow(SAFETY_BOUND), None>>,
                        <<Pow(SAFETY_BOUND + 2), None>>,
                        <<Neg(0), None>>, <<Zero, None>>,
                        <<Pow(1), Zero>>, <<None, None>>})
    \cup ({"bogus"} \X {<<Pow(1), None>>})
VetoThresholds == {Pow(-2), Pow(1)}

NoCfg ==
    [rollout_is |-> NoLevel, rollout_is_threshold |-> None,
     rollout_rs |-> NoLevel, rollout_rs_threshold |-> None,
     rollout_rs_threshold_lower |-> None, rollout_token_veto_threshold |-> None]

\* configurations of the unified entry point: every combination of the
\* settings under which a stage runs or is skipped, and the settings a stage
\* rejects combined with some of the others
IsSettings ==
    {<<NoLevel, Pow(1)>>, <<"token", Pow(1)>>, <<"sequence", Pow(1)>>, <<"token", Pow(-1)>>,
     <<"token", None>>}
IsSettingsRefused == {<<"token", Zero>>, <<"bogus", Pow(1)>>, <<"bogus", None>>}
UnifiedRsSettings ==
    {<<NoLevel, <<Pow(1), None>>>>,
     <<"token", <<Pow(2), None>>>>, <<"token", <<Pow(1), None>>>>,
     <<"token", <<Pow(2), Pow(-1)>>>>, <<"token", <<Pow(-2), None>>>>,
     <<"sequence", <<Pow(1), None>>>>, <<"geometric", <<Pow(1), None>>>>,
     <<"token", <<None, None>>>>}
UnifiedRsSettingsRefused ==
    {<<"token", <<Neg(0), None>>>>, <<"bogus", <<Pow(1), None>>>>, <<"bogus", <<None, None>>>>}
UnifiedCfg(i, r, v) ==
    [rollout_is |-> i[1], rollout_is_threshold |-> i[2],
     rollout_rs |-> r[1], rollout_rs_threshold |-> r[2][1],
     rollout_rs_threshold_lower |-> r[2][2], rollout_token_veto_threshold |-> v]
UnifiedCfgs ==
    {UnifiedCfg(i, r, v) :
        i \in IsSettings, r \in UnifiedRsSettings, v \in VetoThresholds \cup {None}}
    \cup {UnifiedCfg(i, r, Zero) :
        i \in {<<NoLevel, Pow(1)>>, <<"token", Pow(1)>>},
        r \in {<<NoLevel, <<Pow(1), None>>>>, <<"token", <<Pow(1), None>>>>}}
    \cup {UnifiedCfg(i, r, v) :
        i \in IsSettingsRefused,
        r \in {<<NoLevel, <<Pow(1), None>>>>, <<"token", <<Pow(1), None>>>>},
        v \in {None, Pow(-2)}}
    \cup {UnifiedCfg(i, r, v) :
        i \in {<<NoLevel, Pow(1)>>, <<"token", Pow(1)>>},
        r \in UnifiedRsSettingsRefused,
        v \in {None, Pow(-2)}}

Init ==
    /\ \E rollout \in RolloutLogProbs, ch \in [Rows -> RowChoices] :
          /\ response_mask = [i \in Rows |-> [j \in Cols |-> ch[i][j][1]]]
          /\ rollout_log_prob = [i \in Rows |-> [j \in Cols |-> rollout]]
          /\ old_log_prob = [i \in Rows |-> [j \in Cols |->
                IF ch[i][j][1] = 1 THEN rollout + ch[i][j][2] ELSE PaddingLogProb(i)]]
    /\ pc = "ready"
    /\ entry = "none"
    /\ cfg = NoCfg
    /\ out = [kind |-> "none", exc |-> "", weights |-> NoTensor, mask |-> NoTensor,
              metrics |-> NoMetrics]

\* ----------------------------------------------------------------- actions
CallWeights ==
    /\ pc = "ready"
    /\ \E level \in IsLevels, tau \in IsThresholds :
          /\ cfg' = [NoCfg EXCEPT !.rollout_is = level, !.rollout_is_threshold = tau]
          /\ out' = compute_rollout_correction_weights(
                        LogRatio(old_log_prob, rollout_log_prob), response_mask, level, tau)
    /\ entry' = "compute_rollout_correction_weights"
    /\ pc' = "done"
    /\ UNCHANGED <<old_log_prob, rollout_log_prob, response_mask>>

CallRejection ==
    /\ pc = "ready"
    /\ \E r \in RsSettings :
          /\ cfg' = [NoCfg EXCEPT !.rollout_rs = r[1], !.rollout_rs_threshold = r[2][1],
                                  !.rollout_rs_threshold_lower = r[2][2]]
          /\ out' = compute_rollout_rejection_mask(
                        LogRatio(old_log_prob, rollout_log_prob), response_mask,
                        r[1], r[2][1], r[2][2])
    /\ entry' = "compute_rollout_rejection_mask"
    /\ pc' = "done"
    /\ UNCHANGED <<old_log_prob, rollout_log_prob, response_mask>>

CallMismatch ==
    /\ pc = "ready"
    /\ \E assertions \in BOOLEAN :
          out' = compute_mismatch_metrics(old_log_prob, rollout_log_prob, response_mask,
                                          assertions)
    /\ cfg' = NoCfg
    /\ entry' = "compute_mismatch_metrics"
    /\ pc' = "done"
    /\ UNCHANGED <<old_log_prob, rollout_log_prob, response_mask>>

CallUnified ==
    /\ pc = "ready"
    /\ \E c \in UnifiedCfgs :
          /\ cfg' = c
          /\ out' = compute_rollout_correction_and_rejection_mask(
                        old_log_prob, rollout_log_prob, response_mask, c)
    /\ entry' = "compute_rollout_correction_and_rejection_mask"
    /\ pc' = "done"
    /\ UNCHANGED <<old_log_prob, rollout_log_prob, response_mask>>

Next == CallWeights \/ CallRejection \/ CallMismatch \/ CallUnified

Spec == Init /\ [][Next]_vars

\* ------------------------------------------------------------------ claims
lr == LogRatio(old_log_prob, rollout_log_prob)
Valid(i, j) == response_mask[i][j] = 1
CalledWeights == pc = "done" /\ entry = "compute_rollout_correction_weights"
CalledRejection == pc = "done" /\ entry = "compute_rollout_rejection_mask"
CalledMismatch == pc = "done" /\ entry = "compute_mismatch_metrics"
CalledUnified == pc = "done" /\ entry = "compute_rollout_correction_and_rejection_mask"
ReturnedOk == out.kind = "returned"

\* C1: for a mask with a valid token, a level in {token, sequence} and tau > 0,
\* compute_rollout_correction_weights returns, and the returned weights satisfy
\* 0 <= w <= tau at every position and w = 0 wherever the mask is 0.
C1_WeightsWithinZeroAndTau ==
    (/\ CalledWeights
     /\ MaskAny(response_mask)
     /\ cfg.rollout_is \in {"token", "sequence"}
     /\ IsPositive(cfg.rollout_is_threshold))
    => /\ ReturnedOk
       /\ \A i \in Rows, j \in Cols :
            /\ LinLE(Zero, out.weights[i][j])
            /\ LinLE(out.weights[i][j], cfg.rollout_is_threshold)
            /\ (~Valid(i, j) => out.weights[i][j] = Zero)

\* C1 witness: a returned weight tensor with a valid token truncated to tau, a
\* valid token below tau and a padding position.
C1_Witness ==
    /\ CalledWeights /\ ReturnedOk
    /\ \E i \in Rows, j \in Cols :
          /\ Valid(i, j) /\ LinLT(cfg.rollout_is_threshold, Exp(lr[i][j]))
          /\ out.weights[i][j] = cfg.rollout_is_threshold
    /\ \E i \in Rows, j \in Cols :
          Valid(i, j) /\ LinLT(out.weights[i][j], cfg.rollout_is_threshold)
    /\ \E i \in Rows, j \in Cols : ~Valid(i, j) /\ out.weights[i][j] = Zero

\* C2: the mask returned by compute_rollout_rejection_mask, and the final mask
\* of the unified entry point, is elementwise <= the input response mask.
C2_MaskNeverAddsTokens ==
    ((CalledRejection \/ CalledUnified) /\ ReturnedOk)
    => \A i \in Rows, j \in Cols :
          out.mask[i][j] \in {0, 1} /\ out.mask[i][j] <= response_mask[i][j]

\* C2 witness: a rejection that removes a valid token while a padding position
\* whose weight lies inside the band stays 0.
C2_Witness ==
    /\ CalledRejection /\ ReturnedOk /\ cfg.rollout_rs = "token"
    /\ \E i \in Rows, j \in Cols : Valid(i, j) /\ out.mask[i][j] = 0
    /\ \E i \in Rows, j \in Cols : Valid(i, j) /\ out.mask[i][j] = 1
    /\ \E i \in Rows, j \in Cols :
          /\ ~Valid(i, j) /\ out.mask[i][j] = 0
          /\ InBand(Exp(lr[i][j]),
                    LowerThreshold(cfg.rollout_rs_threshold, cfg.rollout_rs_threshold_lower),
                    cfg.rollout_rs_threshold)

\* C3: sequence-level weights are equal across the valid tokens of a row, and
\* sequence or geometric rejection keeps all valid tokens of a row or none.
C3_RowUniform ==
    /\ ((CalledWeights \/ CalledUnified) /\ ReturnedOk /\ IsEnabled(cfg)
            /\ cfg.rollout_is = "sequence")
        => \A i \in Rows, j \in Cols, k \in Cols :
              (Valid(i, j) /\ Valid(i, k)) => out.weights[i][j] = out.weights[i][k]
    /\ (CalledRejection /\ ReturnedOk /\ cfg.rollout_rs \in {"sequence", "geometric"})
        => \A i \in Rows :
              \/ \A j \in Cols : Valid(i, j) => out.mask[i][j] = 1
              \/ \A j \in Cols : out.mask[i][j] = 0

\* C3 witness: sequence-level rejection of a row whose two valid tokens have
\* different log-ratios, one of them inside the band on its own, while another
\* row is kept.
C3_Witness ==
    /\ CalledRejection /\ ReturnedOk /\ cfg.rollout_rs = "sequence"
    /\ IsNone(cfg.rollout_rs_threshold_lower)
    /\ \E i \in Rows, j \in Cols, k \in Cols :
          /\ Valid(i, j) /\ Valid(i, k) /\ lr[i][j] # lr[i][k]
          /\ InBand(Exp(lr[i][j]), Recip(cfg.rollout_rs_threshold), cfg.rollout_rs_threshold)
          /\ out.mask[i][j] = 0 /\ out.mask[i][k] = 0
    /\ \E i \in Rows, j \in Cols : Valid(i, j) /\ out.mask[i][j] = 1

\* the same unified call with rollout_token_veto_threshold = None
WithoutVeto ==
    compute_rollout_correction_and_rejection_mask(old_log_prob, rollout_log_prob,
        response_mask, [cfg EXCEPT !.rollout_token_veto_threshold = None])

RECURSIVE TensorSumTo(_, _)
TensorSumTo(m, i) == IF i = 0 THEN 0 ELSE RowCount(m, i) + TensorSumTo(m, i - 1)

\* C4: the final mask of a unified call with a positive veto threshold is
\* elementwise <= the final mask of the same call without veto, and so is its sum.
C4_VetoMonotone ==
    (CalledUnified /\ ReturnedOk /\ VetoEnabled(cfg))
    => LET base == WithoutVeto
       IN  /\ base.kind = "returned"
           /\ \A i \in Rows, j \in Cols : out.mask[i][j] <= base.mask[i][j]
           /\ TensorSumTo(out.mask, B) <= TensorSumTo(base.mask, B)

\* C4 witness: the veto zeroes a row in which rejection had kept a token, and
\* leaves another row with a rejected token as rejection made it.
C4_Witness ==
    /\ CalledUnified /\ ReturnedOk /\ VetoEnabled(cfg) /\ RsEnabled(cfg)
    /\ LET base == WithoutVeto
       IN  \E i \in Rows, j \in Cols : base.mask[i][j] = 1 /\ out.mask[i][j] = 0
    /\ \E i \in Rows, j \in Cols, k \in Cols :
          /\ Valid(i, j) /\ out.mask[i][j] = 0
          /\ Valid(i, k) /\ out.mask[i][k] = 1

\* training_log_prob equals rollout_log_prob at every valid position
NoMismatch == \A i \in Rows, j \in Cols : Valid(i, j) => old_log_prob[i][j] = rollout_log_prob[i][j]

\* weights 1 at valid positions, the mask unchanged, no vetoed row, both KL
\* estimators 0
C5_Conclusion ==
    /\ IsEnabled(cfg) => \A i \in Rows, j \in Cols : Valid(i, j) => out.weights[i][j] = One
    /\ \A i \in Rows, j \in Cols : out.mask[i][j] = response_mask[i][j]
    /\ out.metrics["mismatch/rollout_is_veto_fraction"].num = 0
    /\ out.metrics["mismatch/mismatch_kl"].num = 0
    /\ K3IsZero(out.metrics["mismatch/mismatch_k3_kl"])

\* every enabled threshold leaves the ratio 1 alone: the IS threshold is >= 1,
\* the rejection band contains 1, the veto threshold is <= 1
C5_ThresholdsAroundOne ==
    /\ IsEnabled(cfg) => LinLE(One, cfg.rollout_is_threshold)
    /\ RsEnabled(cfg) =>
          InBand(One, LowerThreshold(cfg.rollout_rs_threshold, cfg.rollout_rs_threshold_lower),
                 cfg.rollout_rs_threshold)
    /\ VetoEnabled(cfg) => LinLE(cfg.rollout_token_veto_threshold, One)

\* C5 as stated: with equal log-probabilities at every valid position, every
\* configuration the unified entry point accepts yields weights 1, the original
\* mask, no veto and zero KL estimators.
C5_Original == (CalledUnified /\ ReturnedOk /\ NoMismatch) => C5_Conclusion

\* C5 amended: the same, for configurations whose enabled thresholds leave the
\* ratio 1 alone (IS threshold >= 1, 1 inside the rejection band, veto
\* threshold <= 1).
C5_NoMismatchIsNeutral ==
    (CalledUnified /\ ReturnedOk /\ NoMismatch /\ C5_ThresholdsAroundOne) => C5_Conclusion

\* C5 witness: such a call with all three stages enabled at sequence level, two
\* valid tokens in a row and a padding position.
C5_Witness ==
    /\ CalledUnified /\ ReturnedOk /\ NoMismatch /\ C5_ThresholdsAroundOne
    /\ IsEnabled(cfg) /\ cfg.rollout_is = "sequence"
    /\ RsEnabled(cfg) /\ cfg.rollout_rs = "sequence" /\ VetoEnabled(cfg)
    /\ \E i \in Rows : \A j \in Cols : Valid(i, j)
    /\ \E i \in Rows, j \in Cols : ~Valid(i, j) /\ lr[i][j] # 0
    /\ \E i \in Rows, j \in Cols : Valid(i, j) /\ out.weights[i][j] = One

\* a/b <= c/d and a/b = c/d for fractions with positive terms
RatLE(a, b) ==
    LET g == Gcd(a.num, b.num)
        h == Gcd(a.den, b.den)
    IN  (a.num \div g) * (b.den \div h) <= (b.num \div g) * (a.den \div h)
RatEq(a, b) == RatLE(a, b) /\ RatLE(b, a)

\* the call computed an effective sample size
C6_HasEss ==
    /\ (CalledWeights \/ CalledRejection) /\ ReturnedOk
    /\ IF CalledWeights THEN out.metrics["rollout_is_eff_sample_size"].den > 0
       ELSE out.metrics["rollout_rs_eff_sample_size"].den > 0
C6_Ess ==
    IF CalledWeights THEN out.metrics["rollout_is_eff_sample_size"]
    ELSE out.metrics["rollout_rs_eff_sample_size"]
\* the threshold-clamped weights the metric is taken over, as scaled integers
C6_Clamped ==
    IF CalledWeights
    THEN [i \in Rows |-> [j \in Cols |->
            WeightNum(ClampLin(out.weights[i][j], Recip(cfg.rollout_is_threshold),
                               cfg.rollout_is_threshold))]]
    ELSE LET agg == RsAggregate(lr, response_mask, cfg.rollout_rs)
         IN [i \in Rows |-> [j \in Cols |->
               WeightNum(ClampLin(Exp(Clamp(agg[i][j], 0 - SAFETY_BOUND, SAFETY_BOUND)),
                    LowerThreshold(cfg.rollout_rs_threshold, cfg.rollout_rs_threshold_lower),
                    cfg.rollout_rs_threshold))]]
C6_AllEqual ==
    \A i \in Rows, j \in Cols, k \in Rows, l \in Cols :
        (Valid(i, j) /\ Valid(k, l)) => C6_Clamped[i][j] = C6_Clamped[k][l]
C6_N == MaskCount(response_mask)
C6_Sum == SumTo([i \in Rows |-> RowSumTo(C6_Clamped, response_mask, i, T)], B)
\* (1 + eps/m)^2 for the masked mean m = C6_Sum / C6_N
C6_Bound == Frac((C6_Sum + C6_N * EssEps) * (C6_Sum + C6_N * EssEps), C6_Sum * C6_Sum)

\* C6 as stated, on batches of two or more valid tokens: 1 <= ESS <= number of
\* valid tokens, and ESS equals the number of valid tokens when all valid
\* weights are equal.
C6_Original ==
    (C6_HasEss /\ C6_N >= 2) =>
       /\ RatLE(Frac(1, 1), C6_Ess)
       /\ RatLE(C6_Ess, Frac(C6_N, 1))
       /\ C6_AllEqual => RatEq(C6_Ess, Frac(C6_N, 1))

\* C6 amended: the metric is the normalised effective sample size: it lies
\* between 1/n (n the number of valid tokens) and (1 + eps/m)^2, m the masked
\* mean of the clamped weights and eps the 1e-8 guard, and it equals
\* (1 + eps/m)^2 when all valid clamped weights are equal, whatever n is.
C6_EssNormalised ==
    C6_HasEss =>
       /\ RatLE(Frac(1, C6_N), C6_Ess)
       /\ RatLE(C6_Ess, C6_Bound)
       /\ C6_AllEqual => RatEq(C6_Ess, C6_Bound)

\* C6 witness: two or more valid tokens with unequal clamped weights and an
\* effective sample size below 1.
C6_Witness ==
    /\ C6_HasEss /\ CalledWeights /\ C6_N >= 2 /\ ~C6_AllEqual
    /\ C6_Ess.num < C6_Ess.den

\* a token-level rejection call with the default lower threshold returned
C7_Case ==
    /\ CalledRejection /\ ReturnedOk
    /\ cfg.rollout_rs = "token" /\ IsNone(cfg.rollout_rs_threshold_lower)
\* ratios equal to tau_upper or 1/tau_upper are kept, ratios outside are 0
C7_Inclusive ==
    LET tau == cfg.rollout_rs_threshold
    IN  \A i \in Rows, j \in Cols :
          Valid(i, j) =>
            LET ratio == Exp(lr[i][j])
            IN  /\ ratio = tau => out.mask[i][j] = 1
                /\ ratio = Recip(tau) => out.mask[i][j] = 1
                /\ (LinLT(tau, ratio) \/ LinLT(ratio, Recip(tau))) => out.mask[i][j] = 0

\* C7 as stated: token-level rejection with the default lower threshold keeps a
\* valid token whose ratio is exactly tau_upper or exactly 1/tau_upper and zeroes
\* a valid token whose ratio is strictly outside.
C7_Original == C7_Case => C7_Inclusive

\* C7 amended: the same, for 1 <= tau_upper < exp(SAFETY_BOUND).
C7_InclusiveBounds ==
    (/\ C7_Case
     /\ LinLE(One, cfg.rollout_rs_threshold)
     /\ LinLT(cfg.rollout_rs_threshold, Pow(SAFETY_BOUND))) => C7_Inclusive

\* C7 witness: tau_upper = 2 units; one valid token at exactly tau_upper or
\* 1/tau_upper is kept and one valid token strictly outside is zeroed.
C7_Witness ==
    /\ C7_Case /\ cfg.rollout_rs_threshold = Pow(2)
    /\ \E i \in Rows, j \in Cols :
          Valid(i, j) /\ Exp(lr[i][j]) \in {Pow(2), Pow(-2)} /\ out.mask[i][j] = 1
    /\ \E i \in Rows, j \in Cols :
          Valid(i, j) /\ LinLT(Exp(lr[i][j]), Pow(-2)) /\ out.mask[i][j] = 0

\* the mask the rejection stage produced (the original mask when it is disabled)
C8_StageMask ==
    IF RsEnabled(cfg) THEN RsStage(lr, response_mask, cfg).mask ELSE response_mask
\* the row holds a valid token whose raw ratio is strictly below the veto threshold
C8_RowVetoed(i) ==
    \E j \in Cols : Valid(i, j) /\ LinLT(Exp(lr[i][j]), cfg.rollout_token_veto_threshold)

\* C8: in the unified entry point with a veto threshold, a row with a valid
\* token whose raw ratio is strictly below the threshold is all 0 in the final
\* mask, and every other row keeps exactly the mask of the rejection stage.
C8_VetoZeroesWholeRows ==
    (CalledUnified /\ ReturnedOk /\ VetoEnabled(cfg)) =>
       LET stage == C8_StageMask
       IN  \A i \in Rows :
             IF C8_RowVetoed(i)
             THEN \A j \in Cols : out.mask[i][j] = 0
             ELSE \A j \in Cols : out.mask[i][j] = stage[i][j]

\* C8 witness: one row is vetoed although it holds valid tokens the rejection
\* stage kept; another row is not vetoed, and the rejection stage dropped one
\* of its valid tokens and kept another.
C8_Witness ==
    /\ CalledUnified /\ ReturnedOk /\ VetoEnabled(cfg) /\ RsEnabled(cfg)
    /\ LET stage == C8_StageMask
       IN  /\ \E i \in Rows : C8_RowVetoed(i) /\ \E j \in Cols : stage[i][j] = 1
           /\ \E i \in Rows :
                 /\ ~C8_RowVetoed(i)
                 /\ \E j \in Cols : Valid(i, j) /\ out.mask[i][j] = 0
                 /\ \E j \in Cols : out.mask[i][j] = 1

\* a threshold that is used by the call is zero or negative
C10_NonPositiveSupplied ==
    \/ CalledWeights /\ NonPositive(cfg.rollout_is_threshold)
    \/ CalledRejection /\ (\/ NonPositive(cfg.rollout_rs_threshold)
                           \/ NonPositive(cfg.rollout_rs_threshold_lower))
    \/ CalledUnified /\ (\/ IsEnabled(cfg) /\ NonPositive(cfg.rollout_is_threshold)
                         \/ RsEnabled(cfg) /\ (\/ NonPositive(cfg.rollout_rs_threshold)
                                               \/ NonPositive(cfg.rollout_rs_threshold_lower))
                         \/ VetoEnabled(cfg) /\ NonPositive(cfg.rollout_token_veto_threshold))

\* C9: every entry point called with a response mask without a valid token,
\* and with no non-positive threshold, raises the invalid-argument error
\* (ValueError) and returns no result.
C9_EmptyMaskRaisesValueError ==
    (pc = "done" /\ ~MaskAny(response_mask) /\ ~C10_NonPositiveSupplied) =>
        (out.kind = "raised" /\ out.exc = "ValueError")

\* C10: a call given a non-positive IS, rejection upper, rejection lower or
\* veto threshold raises the invalid-argument error (ValueError) and returns
\* no result.
C10_NonPositiveThresholdRaises ==
    (pc = "done" /\ C10_NonPositiveSupplied) =>
        (out.kind = "raised" /\ out.exc = "ValueError")

\* the levels each stage accepts
C11_IsLevels == {"token", "sequence"}
C11_RsLevels == {"token", "sequence", "geometric"}
\* the unified entry point was given a level string outside the allowed set
C11_UnknownIsLevel == cfg.rollout_is \notin (C11_IsLevels \cup {NoLevel})
C11_UnknownRsLevel == cfg.rollout_rs \notin (C11_RsLevels \cup {NoLevel})

\* C11 as stated: every entry point given a level string outside its allowed
\* set raises the invalid-argument error (ValueError) and returns no result,
\* the unified entry point included.
C11_Original ==
    (\/ CalledWeights /\ cfg.rollout_is \notin C11_IsLevels
     \/ CalledRejection /\ cfg.rollout_rs \notin C11_RsLevels
     \/ CalledUnified /\ (C11_UnknownIsLevel \/ C11_UnknownRsLevel)) =>
        (out.kind = "raised" /\ out.exc = "ValueError")

\* C11 amended: the same, where the unified entry point validates a level only
\* when the threshold of that stage is given (the stage runs).
C11_UnknownLevelRaises ==
    (\/ CalledWeights /\ cfg.rollout_is \notin C11_IsLevels
     \/ CalledRejection /\ cfg.rollout_rs \notin C11_RsLevels
     \/ CalledUnified /\ (\/ C11_UnknownIsLevel /\ IsEnabled(cfg)
                          \/ C11_UnknownRsLevel /\ RsEnabled(cfg))) =>
        (out.kind = "raised" /\ out.exc = "ValueError")

\* C11 witness: the unified entry point, on a batch with valid tokens and a
\* correct weights stage, raises for an unknown rejection level.
C11_Witness ==
    /\ CalledUnified /\ MaskAny(response_mask)
    /\ IsEnabled(cfg) /\ cfg.rollout_is = "token" /\ IsPositive(cfg.rollout_is_threshold)
    /\ C11_UnknownRsLevel /\ RsEnabled(cfg)
    /\ out.kind = "raised" /\ out.exc = "ValueError"

\* The batch of the scenario: mask [[1,1,0],[1,1,1]], training equal to rollout
\* except at the first position of the first row, where the ratio lies above
\* the threshold 2 = Pow(1).  The ratio 3 is not a power of the base; the grid
\* ratio above the threshold stands for it.
C12_Two == Pow(1)
C12_Batch ==
    /\ response_mask = <<<<1, 1, 0>>, <<1, 1, 1>>>>
    /\ LinLT(C12_Two, Exp(lr[1][1])) /\ lr[1][1] > 0
    /\ lr[1][2] = 0
    /\ \A j \in Cols : lr[2][j] = 0
C12_Weights == <<<<C12_Two, One, Zero>>, <<One, One, One>>>>
C12_Mask == <<<<0, 1, 0>>, <<1, 1, 1>>>>

\* C12: on the scenario batch, token-level IS weights with threshold 2 are
\* [2,1,0] and [1,1,1], and token-level rejection with threshold 2 returns the
\* mask [[0,1,0],[1,1,1]]; called alone or through the unified entry point.
C12_Scenario ==
    C12_Batch =>
      /\ (CalledWeights /\ cfg.rollout_is = "token" /\ cfg.rollout_is_threshold = C12_Two)
            => (ReturnedOk /\ out.weights = C12_Weights)
      /\ (/\ CalledRejection /\ cfg.rollout_rs = "token"
          /\ cfg.rollout_rs_threshold = C12_Two /\ IsNone(cfg.rollout_rs_threshold_lower))
            => (ReturnedOk /\ out.mask = C12_Mask)
      /\ (/\ CalledUnified /\ cfg.rollout_is = "token" /\ cfg.rollout_is_threshold = C12_Two
          /\ cfg.rollout_rs = "token" /\ cfg.rollout_rs_threshold = C12_Two
          /\ IsNone(cfg.rollout_rs_threshold_lower) /\ ~VetoEnabled(cfg))
            => (ReturnedOk /\ out.weights = C12_Weights /\ out.mask = C12_Mask)

\* C12 witness: the unified entry point returned both on the scenario batch.
C12_Witness ==
    /\ C12_Batch /\ CalledUnified /\ ReturnedOk
    /\ cfg.rollout_is = "token" /\ cfg.rollout_is_threshold = C12_Two
    /\ cfg.rollout_rs = "token" /\ cfg.rollout_rs_threshold = C12_Two
    /\ IsNone(cfg.rollout_rs_threshold_lower) /\ ~VetoEnabled(cfg)
    /\ out.weights[1][1] = C12_Two /\ out.mask[1][1] = 0 /\ out.mask[2][3] = 1
C12_WitnessWeights ==
    C12_Batch /\ CalledWeights /\ cfg.rollout_is = "token" /\ out.weights = C12_Weights
C12_WitnessRejection ==
    C12_Batch /\ CalledRejection /\ cfg.rollout_rs = "token" /\ out.mask = C12_Mask

\* a metric key that starts with the given text
HasPrefix(k, p) == Len(k) >= Len(p) /\ SubSeq(k, 1, Len(p)) = p
\* the two veto keys, which carry the rollout_is_ prefix without being
\* statistics of the weights
C13_VetoKeys ==
    {"mismatch/rollout_is_veto_fraction", "mismatch/rollout_is_catastrophic_token_fraction"}
C13_IsKeys ==
    {k \in DOMAIN out.metrics : HasPrefix(k, "mismatch/rollout_is_")} \ C13_VetoKeys
C13_RsKeys == {k \in DOMAIN out.metrics : HasPrefix(k, "mismatch/rollout_rs_")}
C13_IsSkipped == cfg.rollout_is = NoLevel \/ IsNone(cfg.rollout_is_threshold)
C13_RsSkipped == cfg.rollout_rs = NoLevel \/ IsNone(cfg.rollout_rs_threshold)
C13_NoVeto == IsNone(cfg.rollout_token_veto_threshold)

\* C13: in a return of the unified entry point, a weights stage whose level or
\* threshold is null leaves the weights None and adds no weight statistics
\* key; a rejection stage whose level or threshold is null adds no rollout_rs_
\* key and the veto works on the original mask; the two veto keys are always
\* present, and both are 0 when no veto threshold is given.
C13_SkippedStagesAddNothing ==
    (CalledUnified /\ ReturnedOk) =>
      /\ C13_IsSkipped => (out.weights = NoTensor /\ C13_IsKeys = {})
      /\ C13_RsSkipped =>
            /\ C13_RsKeys = {}
            /\ \A i \in Rows, j \in Cols :
                  out.mask[i][j] =
                    IF ~C13_NoVeto /\ C8_RowVetoed(i) THEN 0 ELSE response_mask[i][j]
      /\ C13_VetoKeys \subseteq DOMAIN out.metrics
      /\ C13_NoVeto => \A k \in C13_VetoKeys : out.metrics[k] = Frac(0, 1)

\* C13 witness: both stages are skipped, one for its null level and one for
\* its null threshold, and no veto threshold is given; the call returns with
\* the original mask and only the mismatch and veto keys.
C13_Witness ==
    /\ CalledUnified /\ ReturnedOk /\ C13_NoVeto
    /\ cfg.rollout_is # NoLevel /\ IsNone(cfg.rollout_is_threshold)
    /\ cfg.rollout_rs = NoLevel /\ ~IsNone(cfg.rollout_rs_threshold)
    /\ out.mask = response_mask /\ out.weights = NoTensor
    /\ "mismatch/mismatch_kl" \in DOMAIN out.metrics
    /\ C13_IsKeys = {} /\ C13_RsKeys = {}

\* what the weights entry point alone returns for the weights settings of the call
C14_WeightsAlone ==
    IF C13_IsSkipped THEN NoTensor
    ELSE compute_rollout_correction_weights(lr, response_mask,
             cfg.rollout_is, cfg.rollout_is_threshold).weights
\* the same call of the unified entry point with the weights stage switched off
C14_WithoutIs ==
    compute_rollout_correction_and_rejection_mask(old_log_prob, rollout_log_prob,
        response_mask, [cfg EXCEPT !.rollout_is = NoLevel])

\* C14: in a return of the unified entry point the weights are those of the
\* weights settings alone, whatever the rejection and veto settings (they are
\* not zeroed at rejected or vetoed positions), and the final mask is the one
\* returned with the weights stage switched off, whatever the weights settings.
C14_StagesIndependent ==
    (CalledUnified /\ ReturnedOk) =>
      /\ out.weights = C14_WeightsAlone
      /\ LET without == C14_WithoutIs
         IN  without.kind = "returned" /\ out.mask = without.mask

\* C14 witness: with both stages and the veto enabled, a valid token dropped
\* by the rejection stage and a valid token of a vetoed row keep a non-zero
\* weight.
C14_Witness ==
    /\ CalledUnified /\ ReturnedOk
    /\ ~C13_IsSkipped /\ ~C13_RsSkipped /\ ~C13_NoVeto
    /\ \E i \in Rows, j \in Cols :
          /\ Valid(i, j) /\ ~C8_RowVetoed(i) /\ out.mask[i][j] = 0
          /\ out.weights[i][j] # Zero
    /\ \E i \in Rows, j \in Cols :
          /\ Valid(i, j) /\ C8_RowVetoed(i) /\ C8_StageMask[i][j] = 1
          /\ out.mask[i][j] = 0 /\ out.weights[i][j] # Zero

\* the rows holding a valid token whose raw ratio is strictly below the veto
\* threshold: a set fixed by the log-ratio, the original mask and the threshold
C15_Triggered == {i \in Rows : C8_RowVetoed(i)}

\* C15: with a veto threshold, the rows the unified entry point vetoes are the
\* rows holding a valid token with raw ratio strictly below the threshold,
\* whatever the rejection settings: the veto fraction counts exactly these
\* rows, each of them is all 0 in the final mask, and every other row (its
\* padding and its tokens at or above the threshold do not count) keeps the
\* mask of the rejection stage.
C15_VetoOnOriginalInputs ==
    (CalledUnified /\ ReturnedOk /\ ~C13_NoVeto) =>
      /\ out.metrics["mismatch/rollout_is_veto_fraction"]
            = Frac(Cardinality(C15_Triggered), B)
      /\ \A i \in C15_Triggered : \A j \in Cols : out.mask[i][j] = 0
      /\ LET stage == C8_StageMask
         IN  \A i \in Rows \ C15_Triggered : \A j \in Cols : out.mask[i][j] = stage[i][j]

\* C15 witness: in one row the only token below the veto threshold was
\* already dropped by the rejection stage, and the veto still zeroes a token
\* of that row the stage kept; the other row is not vetoed although its
\* padding lies below the threshold and a valid token, kept in the final
\* mask, has a ratio exactly equal to the threshold.
C15_Witness ==
    /\ CalledUnified /\ ReturnedOk /\ ~C13_NoVeto /\ ~C13_RsSkipped
    /\ \E i \in C15_Triggered :
          /\ \A j \in Cols :
                (Valid(i, j) /\ LinLT(Exp(lr[i][j]), cfg.rollout_token_veto_threshold))
                   => C8_StageMask[i][j] = 0
          /\ \E j \in Cols : C8_StageMask[i][j] = 1 /\ out.mask[i][j] = 0
    /\ \E i \in Rows \ C15_Triggered :
          /\ \E j \in Cols :
                ~Valid(i, j) /\ LinLT(Exp(lr[i][j]), cfg.rollout_token_veto_threshold)
          /\ \E j \in Cols :
                /\ Valid(i, j) /\ Exp(lr[i][j]) = cfg.rollout_token_veto_threshold
                /\ out.mask[i][j] = 1

\* The unclamped log value of an entry at an aggregation level: the token's
\* log-ratio, the masked sum of its row, or the masked mean of its row.
C16_LogValue(level, i, j) ==
    IF level = "token" THEN lr[i][j]
    ELSE IF level = "sequence" THEN masked_sum_rows(lr, response_mask)[i]
    ELSE masked_mean_rows(lr, response_mask)[i]
\* The fraction of entries (rows at sequence level, valid tokens otherwise)
\* whose unclamped log value lies above log(upper), and below log(lower).
C16_High(level, upper) ==
    IF level = "sequence"
    THEN Frac(Cardinality({i \in Rows : LinLT(upper, Exp(C16_LogValue(level, i, 1)))}), B)
    ELSE Frac(Cardinality({q \in Rows \X Cols :
                 Valid(q[1], q[2]) /\ LinLT(upper, Exp(C16_LogValue(level, q[1], q[2])))}),
              MaskCount(response_mask))
C16_Low(level, lower) ==
    IF level = "sequence"
    THEN Frac(Cardinality({i \in Rows : LinLT(Exp(C16_LogValue(level, i, 1)), lower)}), B)
    ELSE Frac(Cardinality({q \in Rows \X Cols :
                 Valid(q[1], q[2]) /\ LinLT(Exp(C16_LogValue(level, q[1], q[2])), lower)}),
              MaskCount(response_mask))

\* C16: the tail fractions returned by the weights and the rejection entry
\* points are the fractions of entries whose unclamped log value is above
\* log(upper) or below log(lower), at every level, token level included,
\* whatever truncation the weights went through.
C16_TailFractionsUnclamped ==
    /\ (CalledWeights /\ ReturnedOk) =>
          /\ out.metrics["rollout_is_ratio_fraction_high"]
                = C16_High(cfg.rollout_is, cfg.rollout_is_threshold)
          /\ out.metrics["rollout_is_ratio_fraction_low"]
                = C16_Low(cfg.rollout_is, Recip(cfg.rollout_is_threshold))
    /\ (/\ CalledRejection /\ ReturnedOk /\ IsPositive(cfg.rollout_rs_threshold)
        /\ (IsNone(cfg.rollout_rs_threshold_lower) \/ IsPositive(cfg.rollout_rs_threshold_lower))) =>
          /\ out.metrics["rollout_rs_ratio_fraction_high"]
                = C16_High(cfg.rollout_rs, cfg.rollout_rs_threshold)
          /\ out.metrics["rollout_rs_ratio_fraction_low"]
                = C16_Low(cfg.rollout_rs,
                          IF IsNone(cfg.rollout_rs_threshold_lower)
                          THEN Recip(cfg.rollout_rs_threshold)
                          ELSE cfg.rollout_rs_threshold_lower)

\* a log-domain value that a clamp to the safety bound lets through
C17_InBound(x) == x >= 0 - SAFETY_BOUND /\ x <= SAFETY_BOUND
\* a metric of the call, under the key the entry point gives it
C17_Metric(name) ==
    IF CalledUnified THEN out.metrics["mismatch/" \o name] ELSE out.metrics[name]
C17_HasMismatchMetrics == (CalledMismatch \/ CalledUnified) /\ ReturnedOk
C17_IsPerRow == (CalledWeights \/ CalledUnified) /\ ReturnedOk
                    /\ ~C13_IsSkipped /\ cfg.rollout_is = "sequence"
C17_RsPerRow == (CalledRejection \/ CalledUnified) /\ ReturnedOk
                    /\ ~C13_RsSkipped /\ cfg.rollout_rs \in {"sequence", "geometric"}

\* C17: every exponential an entry point takes has its argument inside the
\* safety bound, and so a result of at most exp(SAFETY_BOUND): the weights,
\* the per-row max/min metrics, the terms of the K3 estimator, the per-row
\* perplexities and the per-row perplexity ratios.
C17_EveryExpClamped ==
    /\ ((CalledWeights \/ CalledUnified) /\ ReturnedOk /\ ~C13_IsSkipped) =>
          \A i \in Rows, j \in Cols : Valid(i, j) => out.weights[i][j].e <= SAFETY_BOUND
    /\ C17_IsPerRow =>
          /\ C17_InBound(C17_Metric("rollout_is_max").e)
          /\ C17_InBound(C17_Metric("rollout_is_min").e)
    /\ C17_RsPerRow =>
          /\ C17_InBound(C17_Metric("rollout_rs_max").e)
          /\ C17_InBound(C17_Metric("rollout_rs_min").e)
    /\ C17_HasMismatchMetrics =>
          /\ \A x \in DOMAIN C17_Metric("mismatch_k3_kl").terms : C17_InBound(x)
          /\ \A i \in Rows :
                /\ C17_InBound(C17_Metric("mismatch_training_ppl").terms[i].e)
                /\ C17_InBound(C17_Metric("mismatch_rollout_ppl").terms[i].e)
                /\ C17_InBound(C17_Metric("mismatch_ppl_ratio").terms[i].e)

\* the same log-probabilities with another value stored at the padding positions
C18_Repad(log_prob, v) ==
    [i \in Rows |-> [j \in Cols |-> IF Valid(i, j) THEN log_prob[i][j] ELSE v]]
\* padding values <<training, rollout>>: a padding log-ratio far below and far
\* above the safety bound
C18_Paddings ==
    {<<ExtremeLogRatio - Grid, 0>>, <<0, ExtremeLogRatio - Grid>>}

C19_Floor ==
    IF LinLT(cfg.rollout_is_threshold, Exp(0 - SAFETY_BOUND)) THEN cfg.rollout_is_threshold
    ELSE Exp(0 - SAFETY_BOUND)

\* C19: the weights compute_rollout_correction_weights returns are, at every
\* valid position, at least min(tau, exp(-SAFETY_BOUND)), and so positive.
C19_ValidWeightsPositive ==
    (CalledWeights /\ ReturnedOk) =>
      \A i \in Rows, j \in Cols :
         Valid(i, j) => (LinLE(C19_Floor, out.weights[i][j]) /\ LinLT(Zero, out.weights[i][j]))

\* C19 witness: a valid token with a log-ratio below -SAFETY_BOUND gets the
\* weight exp(-SAFETY_BOUND) under a larger threshold.
C19_Witness ==
    /\ CalledWeights /\ ReturnedOk /\ cfg.rollout_is = "token"
    /\ LinLT(Exp(0 - SAFETY_BOUND), cfg.rollout_is_threshold)
    /\ \E i \in Rows, j \in Cols :
          /\ Valid(i, j) /\ lr[i][j] < 0 - SAFETY_BOUND
          /\ out.weights[i][j] = Exp(0 - SAFETY_BOUND)

\* the rejection call at the sequence or token level with tau >= 1 and the
\* default lower threshold 1 / tau
C20_Case(level) ==
    /\ CalledRejection /\ ReturnedOk /\ cfg.rollout_rs = level
    /\ LinLE(One, cfg.rollout_rs_threshold) /\ IsNone(cfg.rollout_rs_threshold_lower)
\* the row holds a valid token and the returned mask keeps all its valid tokens
C20_RowKept(mask, i) ==
    /\ \E j \in Cols : Valid(i, j)
    /\ \A j \in Cols : Valid(i, j) => mask[i][j] = 1
\* what geometric-level rejection returns for the same inputs and threshold
C20_Geometric ==
    compute_rollout_rejection_mask(lr, response_mask, "geometric",
        cfg.rollout_rs_threshold, cfg.rollout_rs_threshold_lower)

\* C20: with tau >= 1 and the default lower threshold, a row with a valid
\* token that sequence-level rejection keeps, and a row all of whose valid
\* tokens token-level rejection keeps, is kept by geometric-level rejection
\* of the same inputs with the same threshold.
C20_GeometricKeepsMore ==
    (C20_Case("sequence") \/ C20_Case("token")) =>
      LET geo == C20_Geometric
      IN  /\ geo.kind = "returned"
          /\ \A i \in Rows : C20_RowKept(out.mask, i) => C20_RowKept(geo.mask, i)

\* C20 witness: sequence-level rejection keeps a row of two valid tokens with
\* different log-ratios and a non-zero sum, and rejects the other row, which
\* the geometric level keeps.
C20_Witness ==
    /\ C20_Case("sequence")
    /\ \E i \in Rows :
          /\ C20_RowKept(out.mask, i)
          /\ \E j \in Cols, k \in Cols : Valid(i, j) /\ Valid(i, k) /\ lr[i][j] # lr[i][k]
          /\ masked_sum_rows(lr, response_mask)[i] # 0
    /\ \E i \in Rows :
          /\ \E j \in Cols : Valid(i, j) /\ out.mask[i][j] = 0
          /\ C20_RowKept(C20_Geometric.mask, i)
\* the token-level case: every valid token of a row with different log-ratios is kept
C20_WitnessToken ==
    /\ C20_Case("token")
    /\ \E i \in Rows :
          /\ C20_RowKept(out.mask, i)
          /\ \E j \in Cols, k \in Cols : Valid(i, j) /\ Valid(i, k) /\ lr[i][j] # lr[i][k]
    /\ \E i \in Rows, j \in Cols : Valid(i, j) /\ out.mask[i][j] = 0

====
